---- MODULE Spec2Model ----
(***************************************************************************)
(* Model of marketing/video-parts/create_slides.py: main() renders three   *)
(* frame sequences (intro, chat demo, outro) and saves every frame as a    *)
(* PNG file.  The state is the position of main() in its loops and the     *)
(* files persisted so far, in write order.                                 *)
(*                                                                         *)
(* Numbers.  The program computes progress and blend factors as Python     *)
(* floats (i / frames, i / 30).  The model keeps them as exact fractions   *)
(* <<num, den>>.  For the loop bounds of the program (30, 90, 180) the     *)
(* float results of every expression modelled below (int(len * min(1.0,    *)
(* p * 1.5)), int(4 * min(1.0, p * 2)), p > 0.5) equal the exact results,  *)
(* so the operators below compute them with integer arithmetic.            *)
(***************************************************************************)
EXTENDS Integers, Sequences, FiniteSets

VARIABLES pc, i, phase, frame_idx, intro_files, chat_files, outro_files, failed

vars == <<pc, i, phase, frame_idx, intro_files, chat_files, outro_files, failed>>

----------------------------------------------------------------------------
(* Fractions <<num, den>> with den > 0.                                     *)

One == <<1, 1>>

Zero == <<0, 1>>

RatEq(a, b) == a[1] * b[2] = b[1] * a[2]

RatLt(a, b) == a[1] * b[2] < b[1] * a[2]

RatLe(a, b) == a[1] * b[2] <= b[1] * a[2]

\* min(1.0, progress * rate) with rate = rn / rd
MinOneScaled(progress, rn, rd) ==
    IF progress[1] * rn >= progress[2] * rd
    THEN One
    ELSE <<progress[1] * rn, progress[2] * rd>>

\* int(n * r) for a fraction r >= 0
IntTimes(n, r) == (n * r[1]) \div r[2]

----------------------------------------------------------------------------
(* Program constants of main().                                             *)

IntroFrames == 150

OutroFrames == 180

FadeLen == 30

IntroFadeOutStart == 120

OutroFadeOutStart == 150

total_frames == 360

phase_frames_mutant == <<90, 90, 180>>

\* phase_frames = [90, 180, 90]: user message, typing response, preview
phase_frames == <<90, 180, 90>>

\* agent_response, as the lengths of its lines; the lines are joined by "\n"
agent_response_lines == <<29, 0, 34, 26, 0, 18, 25, 18, 27, 19, 0, 31>>

RECURSIVE SumSeq(_)
SumSeq(s) == IF s = <<>> THEN 0 ELSE s[1] + SumSeq(Tail(s))

\* len(agent_response)
LenAgentResponse == SumSeq(agent_response_lines) + Len(agent_response_lines) - 1

\* the done flags of the four todos
todos == <<TRUE, TRUE, FALSE, TRUE>>

----------------------------------------------------------------------------
(* Image.blend(im1, im2, alpha) = im1 * (1 - alpha) + im2 * alpha.  An     *)
(* image is represented by the weight of the slide content in it: the      *)
(* solid DARK_BG image is 0, the base slide is 1.                           *)

BlendFromBackground(alpha) == alpha

BlendToBackground(alpha) == <<alpha[2] - alpha[1], alpha[2]>>

IntroFadeMutant(k) ==
    IF k < FadeLen
    THEN [op |-> "fade_in", alpha |-> <<k, FadeLen>>,
          content |-> BlendFromBackground(<<k, FadeLen>>)]
    ELSE IF k >= IntroFadeOutStart
    THEN [op |-> "fade_out", alpha |-> <<k - IntroFadeOutStart, FadeLen>>,
          content |-> BlendToBackground(<<k - IntroFadeOutStart, FadeLen>>)]
    ELSE [op |-> "copy", alpha |-> Zero, content |-> One]

\* the frame of intro index k; op "copy" is intro_img.copy() with no blend
IntroFade(k) ==
    IF k < FadeLen
    THEN [op |-> "fade_in", alpha |-> <<k, FadeLen>>,
          content |-> BlendFromBackground(<<k, FadeLen>>)]
    ELSE IF k > IntroFadeOutStart
    THEN [op |-> "fade_out", alpha |-> <<k - IntroFadeOutStart, FadeLen>>,
          content |-> BlendToBackground(<<k - IntroFadeOutStart, FadeLen>>)]
    ELSE [op |-> "copy", alpha |-> Zero, content |-> One]

\* the frame of outro index k
OutroFade(k) ==
    IF k < FadeLen
    THEN [op |-> "fade_in", alpha |-> <<k, FadeLen>>,
          content |-> BlendFromBackground(<<k, FadeLen>>)]
    ELSE IF k > OutroFadeOutStart
    THEN [op |-> "fade_out", alpha |-> <<k - OutroFadeOutStart, FadeLen>>,
          content |-> BlendToBackground(<<k - OutroFadeOutStart, FadeLen>>)]
    ELSE [op |-> "copy", alpha |-> Zero, content |-> One]

----------------------------------------------------------------------------
(* create_chat_demo_frame(progress, phase).                                 *)

ProgressMutant(k, frames) == <<k, frames - 1>>

\* progress = i / frames
Progress(k, frames) == <<k, frames>>

\* alpha = min(1.0, progress * 4) if phase == 0 else 1.0
alpha(progress, ph) == IF ph = 0 THEN MinOneScaled(progress, 4, 1) ELSE One

\* if phase >= 0
UserVisible(ph) == ph >= 0

\* if phase >= 1
AgentVisible(ph) == ph >= 1

PreviewVisibleMutant(ph) == ph >= 1

\* if phase >= 2
PreviewVisible(ph) == ph >= 2

chars_to_show_mutant(progress, ph) ==
    IF ph = 1
    THEN IntTimes(LenAgentResponse, MinOneScaled(progress, 1, 1))
    ELSE LenAgentResponse

\* len(visible_text) without the cursor
chars_to_show(progress, ph) ==
    IF ph = 1
    THEN IntTimes(LenAgentResponse, MinOneScaled(progress, 3, 2))
    ELSE LenAgentResponse

\* the cursor is appended while chars_to_show < len(agent_response)
Cursor(progress, ph) == ph = 1 /\ chars_to_show(progress, ph) < LenAgentResponse

opacity_mutant(progress, ph) == IF ph = 2 THEN MinOneScaled(progress, 1, 1) ELSE One

\* opacity = min(1.0, progress * 2) if phase == 2 else 1.0
opacity(progress, ph) == IF ph = 2 THEN MinOneScaled(progress, 2, 1) ELSE One

\* len(todos[:int(len(todos) * opacity)])
ItemsShown(progress, ph) == IntTimes(Len(todos), opacity(progress, ph))

UrlShownMutant(progress, ph) == ph = 2 /\ RatLe(<<1, 2>>, progress)

\* if phase == 2 and progress > 0.5
UrlShown(progress, ph) == ph = 2 /\ RatLt(<<1, 2>>, progress)

\* the layers drawn into the returned image
create_chat_demo_frame(progress, ph) ==
    [user_bubble  |-> UserVisible(ph),
     user_opacity |-> IF UserVisible(ph) THEN One ELSE Zero,
     agent_bubble |-> AgentVisible(ph),
     chars        |-> IF AgentVisible(ph) THEN chars_to_show(progress, ph) ELSE 0,
     cursor       |-> AgentVisible(ph) /\ Cursor(progress, ph),
     preview      |-> PreviewVisible(ph),
     items        |-> IF PreviewVisible(ph)
                      THEN [n \in 1..ItemsShown(progress, ph) |->
                               IF todos[n] THEN "CYAN" ELSE "WHITE"]
                      ELSE <<>>,
     url          |-> PreviewVisible(ph) /\ UrlShown(progress, ph)]

----------------------------------------------------------------------------
(* main().                                                                  *)

Init ==
    /\ pc = "start"
    /\ i = 0
    /\ phase = 0
    /\ frame_idx = 0
    /\ intro_files = <<>>
    /\ chat_files = <<>>
    /\ outro_files = <<>>
    /\ failed = FALSE

\* intro_img = create_intro_slide(); makedirs; enter the intro loop
StartIntro ==
    /\ pc = "start"
    /\ pc' = "intro"
    /\ i' = 0
    /\ UNCHANGED <<phase, frame_idx, intro_files, chat_files, outro_files, failed>>

\* one iteration of the intro loop whose save succeeds
IntroFrame ==
    /\ pc = "intro"
    /\ i < IntroFrames
    /\ intro_files' = Append(intro_files, [idx |-> i, frame |-> IntroFade(i)])
    /\ i' = i + 1
    /\ UNCHANGED <<pc, phase, frame_idx, chat_files, outro_files, failed>>

\* the intro loop ends; makedirs chat; frame_idx = 0; first phase starts
StartChat ==
    /\ pc = "intro"
    /\ i = IntroFrames
    /\ pc' = "chat"
    /\ phase' = 0
    /\ i' = 0
    /\ frame_idx' = 0
    /\ UNCHANGED <<intro_files, chat_files, outro_files, failed>>

ChatFrameMutant ==
    /\ pc = "chat"
    /\ i < phase_frames[phase + 1]
    /\ LET progress == Progress(i, phase_frames[phase + 1])
       IN chat_files' = Append(chat_files,
              [idx |-> i, phase |-> phase, progress |-> progress,
               frame |-> create_chat_demo_frame(progress, phase)])
    /\ frame_idx' = frame_idx + 1
    /\ i' = i + 1
    /\ UNCHANGED <<pc, phase, intro_files, outro_files, failed>>

\* one iteration of the inner chat loop whose save succeeds
ChatFrame ==
    /\ pc = "chat"
    /\ i < phase_frames[phase + 1]
    /\ LET progress == Progress(i, phase_frames[phase + 1])
       IN chat_files' = Append(chat_files,
              [idx |-> frame_idx, phase |-> phase, progress |-> progress,
               frame |-> create_chat_demo_frame(progress, phase)])
    /\ frame_idx' = frame_idx + 1
    /\ i' = i + 1
    /\ UNCHANGED <<pc, phase, intro_files, outro_files, failed>>

\* the inner loop ends and enumerate() yields the next phase
NextPhase ==
    /\ pc = "chat"
    /\ i = phase_frames[phase + 1]
    /\ phase + 1 < Len(phase_frames)
    /\ phase' = phase + 1
    /\ i' = 0
    /\ UNCHANGED <<pc, frame_idx, intro_files, chat_files, outro_files, failed>>

\* the outer loop ends; outro_img = create_outro_slide(); makedirs outro
StartOutro ==
    /\ pc = "chat"
    /\ i = phase_frames[phase + 1]
    /\ phase + 1 = Len(phase_frames)
    /\ pc' = "outro"
    /\ i' = 0
    /\ UNCHANGED <<phase, frame_idx, intro_files, chat_files, outro_files, failed>>

\* one iteration of the outro loop whose save succeeds
OutroFrame ==
    /\ pc = "outro"
    /\ i < OutroFrames
    /\ outro_files' = Append(outro_files, [idx |-> i, frame |-> OutroFade(i)])
    /\ i' = i + 1
    /\ UNCHANGED <<pc, phase, frame_idx, intro_files, chat_files, failed>>

\* the outro loop ends; "All frames generated successfully!"; exit code 0
Finish ==
    /\ pc = "outro"
    /\ i = OutroFrames
    /\ pc' = "done"
    /\ UNCHANGED <<i, phase, frame_idx, intro_files, chat_files, outro_files, failed>>

\* a save was pending in the current state
SavePending ==
    \/ pc = "intro" /\ i < IntroFrames
    \/ pc = "chat" /\ i < phase_frames[phase + 1]
    \/ pc = "outro" /\ i < OutroFrames

SaveFailsMutant ==
    /\ SavePending
    /\ failed' = TRUE
    /\ i' = i + 1
    /\ frame_idx' = IF pc = "chat" THEN frame_idx + 1 ELSE frame_idx
    /\ UNCHANGED <<pc, phase, intro_files, chat_files, outro_files>>

\* frame.save raises; nothing catches it, main() ends with a traceback
SaveFails ==
    /\ SavePending
    /\ failed' = TRUE
    /\ pc' = "aborted"
    /\ UNCHANGED <<i, phase, frame_idx, intro_files, chat_files, outro_files>>

Next ==
    \/ StartIntro
    \/ IntroFrame
    \/ StartChat
    \/ ChatFrame
    \/ NextPhase
    \/ StartOutro
    \/ OutroFrame
    \/ Finish
    \/ SaveFails

Spec == Init /\ [][Next]_vars

----------------------------------------------------------------------------
(* Properties.                                                              *)

\* frames consumed before phase p (p = 0, 1, 2, 3)
FramesBefore(p) == SumSeq(SubSeq(phase_frames, 1, p))

\* the first phase whose cumulative duration bound exceeds f
FirstPhaseExceeding(f) ==
    CHOOSE p \in 0..(Len(phase_frames) - 1) :
        /\ f < FramesBefore(p + 1)
        /\ \A q \in 0..(p - 1) : ~(f < FramesBefore(q + 1))

ChatEntries == {chat_files[k] : k \in 1..Len(chat_files)}

\* C1: every (phase, progress) pair handed to create_chat_demo_frame for a
\* global chat frame index f has phase in {0, 1, 2}, phase the first phase
\* whose cumulative bound exceeds f, progress = (f - frames before the
\* phase) / the phase's duration, 0 <= progress < 1, and (n-1)/n at the last
\* frame of a phase of n frames; once the chat loop has ended every f in
\* 0..359 has been produced.
C1_LocateContract ==
    /\ \A k \in 1..Len(chat_files) :
          LET e == chat_files[k]
              n == phase_frames[e.phase + 1]
          IN /\ e.idx \in 0..359
             /\ e.phase \in {0, 1, 2}
             /\ e.phase = FirstPhaseExceeding(e.idx)
             /\ e.progress = <<e.idx - FramesBefore(e.phase), n>>
             /\ RatLe(Zero, e.progress)
             /\ RatLt(e.progress, One)
             /\ (e.idx = FramesBefore(e.phase + 1) - 1 => e.progress = <<n - 1, n>>)
    /\ (pc \in {"outro", "done"} => {e.idx : e \in ChatEntries} = 0..359)

\* the last frame of every phase has been rendered
C1_Witness ==
    /\ pc = "done"
    /\ \E e \in ChatEntries : e.idx = 89 /\ e.phase = 0 /\ e.progress = <<89, 90>>
    /\ \E e \in ChatEntries : e.idx = 269 /\ e.phase = 1 /\ e.progress = <<179, 180>>
    /\ \E e \in ChatEntries : e.idx = 359 /\ e.phase = 2 /\ e.progress = <<89, 90>>

\* C2: in the chat sequence in frame-index order the user bubble is drawn in
\* every frame, the agent bubble exactly in the frames with phase >= 1
\* (index >= 90), the preview panel exactly in the frames with phase >= 2
\* (index >= 270); a layer once drawn is drawn in every later frame, and the
\* preview panel is never drawn without the agent bubble.
C2_LayerVisibility ==
    /\ \A k \in 1..Len(chat_files) :
          LET e == chat_files[k]
          IN /\ e.frame.user_bubble
             /\ e.frame.agent_bubble <=> e.phase >= 1
             /\ e.frame.agent_bubble <=> e.idx >= 90
             /\ e.frame.preview <=> e.phase >= 2
             /\ e.frame.preview <=> e.idx >= 270
             /\ e.frame.preview => e.frame.agent_bubble
    /\ \A k \in 1..(Len(chat_files) - 1) :
          LET a == chat_files[k]
              b == chat_files[k + 1]
          IN /\ a.idx < b.idx
             /\ a.frame.user_bubble => b.frame.user_bubble
             /\ a.frame.agent_bubble => b.frame.agent_bubble
             /\ a.frame.preview => b.frame.preview

\* frames on both sides of both phase boundaries have been rendered
C2_Witness ==
    /\ \E e \in ChatEntries : e.idx = 89 /\ ~e.frame.agent_bubble
    /\ \E e \in ChatEntries : e.idx = 90 /\ e.frame.agent_bubble /\ ~e.frame.preview
    /\ \E e \in ChatEntries : e.idx = 269 /\ ~e.frame.preview
    /\ \E e \in ChatEntries : e.idx = 270 /\ e.frame.preview
    /\ \E e \in ChatEntries : e.idx = 359 /\ e.frame.preview

\* the k-th file written to a directory has index k - 1
IndicesInOrder(files) == \A k \in 1..Len(files) : files[k].idx = k - 1

\* C3: a run that completes without error has persisted exactly 150 intro,
\* 360 chat and 180 outro frames; in each sequence the file indices are
\* 0..N-1, each written once in strictly increasing order; the chat count
\* is the sum 90 + 180 + 90 of the per-phase counts.
C3_FrameCounts ==
    /\ \A k \in 1..(Len(chat_files) - 1) : chat_files[k].idx < chat_files[k + 1].idx
    /\ \A k \in 1..(Len(intro_files) - 1) : intro_files[k].idx < intro_files[k + 1].idx
    /\ \A k \in 1..(Len(outro_files) - 1) : outro_files[k].idx < outro_files[k + 1].idx
    /\ pc = "done" =>
          /\ Len(intro_files) = 150
          /\ Len(chat_files) = 360
          /\ Len(outro_files) = 180
          /\ IndicesInOrder(intro_files)
          /\ IndicesInOrder(chat_files)
          /\ IndicesInOrder(outro_files)
          /\ Len(chat_files) = SumSeq(phase_frames)
          /\ SumSeq(phase_frames) = 90 + 180 + 90
          /\ total_frames = SumSeq(phase_frames)

\* the run has completed without error
C3_Witness == pc = "done" /\ ~failed /\ frame_idx = 360

\* floor(n * min(1, rn/rd * progress)) as the claims state it
Reveal(n, rn, rd, progress) ==
    IF rn * progress[1] >= rd * progress[2]
    THEN n
    ELSE (n * rn * progress[1]) \div (rd * progress[2])

\* C4: in phase 1 the number of agent-response characters shown is
\* floor(len(text) * min(1, 1.5 * progress)); it is non-decreasing over the
\* successive frames of the phase and equals the full text length in every
\* frame with progress >= 2/3 (local index >= 120 of 180).
C4_TypedReveal ==
    /\ \A k \in 1..Len(chat_files) :
          LET e == chat_files[k]
          IN e.phase = 1 =>
                /\ e.frame.chars = Reveal(238, 3, 2, e.progress)
                /\ e.frame.chars <= LenAgentResponse
                /\ RatLe(<<2, 3>>, e.progress) => e.frame.chars = LenAgentResponse
                /\ e.idx - 90 >= 120 => e.frame.chars = LenAgentResponse
    /\ \A k \in 1..(Len(chat_files) - 1) :
          LET a == chat_files[k]
              b == chat_files[k + 1]
          IN (a.phase = 1 /\ b.phase = 1) => a.frame.chars <= b.frame.chars

\* the frame at progress 2/3 and the one before it have been rendered
C4_Witness ==
    /\ \E e \in ChatEntries :
          e.phase = 1 /\ e.progress = <<119, 180>> /\ e.frame.chars = 236 /\ e.frame.cursor
    /\ \E e \in ChatEntries :
          e.phase = 1 /\ e.progress = <<120, 180>> /\ e.frame.chars = 238 /\ ~e.frame.cursor
    /\ \E e \in ChatEntries : e.phase = 1 /\ e.progress = <<179, 180>>

\* C5: in phase 2 the number of preview items drawn is
\* floor(4 * min(1, 2 * progress)); it is non-decreasing over the successive
\* frames of the phase, never exceeds 4, and is 4 in every frame with
\* progress >= 0.5 (local index >= 45 of 90).
C5_ItemReveal ==
    /\ \A k \in 1..Len(chat_files) :
          LET e == chat_files[k]
          IN e.phase = 2 =>
                /\ Len(e.frame.items) = Reveal(4, 2, 1, e.progress)
                /\ Len(e.frame.items) <= 4
                /\ RatLe(<<1, 2>>, e.progress) => Len(e.frame.items) = 4
                /\ e.idx - 270 >= 45 => Len(e.frame.items) = 4
    /\ \A k \in 1..(Len(chat_files) - 1) :
          LET a == chat_files[k]
              b == chat_files[k + 1]
          IN (a.phase = 2 /\ b.phase = 2) => Len(a.frame.items) <= Len(b.frame.items)

\* the frame at progress 0.5 and the one before it have been rendered
C5_Witness ==
    /\ \E e \in ChatEntries :
          e.phase = 2 /\ e.progress = <<44, 90>> /\ Len(e.frame.items) = 3
    /\ \E e \in ChatEntries :
          e.phase = 2 /\ e.progress = <<45, 90>> /\ Len(e.frame.items) = 4
    /\ \E e \in ChatEntries : e.phase = 2 /\ e.progress = <<89, 90>>

\* C6: the URL caption is drawn exactly when phase = 2 and progress > 0.5:
\* hidden in phases 0 and 1, hidden at progress exactly 0.5 (local index 45,
\* the first frame with all 4 items), shown at local indices 46..89.
C6_UrlCaption ==
    \A k \in 1..Len(chat_files) :
        LET e == chat_files[k]
        IN /\ e.frame.url <=> (e.phase = 2 /\ RatLt(<<1, 2>>, e.progress))
           /\ e.phase \in {0, 1} => ~e.frame.url
           /\ e.idx = 270 + 45 => (~e.frame.url /\ Len(e.frame.items) = 4)
           /\ e.idx \in (270 + 46)..(270 + 89) => e.frame.url
           /\ e.idx < 270 + 45 => Len(e.frame.items) < 4

\* both sides of the threshold have been rendered
C6_Witness ==
    /\ \E e \in ChatEntries : e.phase = 2 /\ e.progress = <<45, 90>> /\ ~e.frame.url
    /\ \E e \in ChatEntries : e.phase = 2 /\ e.progress = <<46, 90>> /\ e.frame.url

\* the fade contract for frame index k of a slide of total frames
FadeContract(e, total) ==
    /\ RatLe(Zero, e.frame.alpha) /\ RatLe(e.frame.alpha, One)
    /\ RatLe(Zero, e.frame.content) /\ RatLe(e.frame.content, One)
    /\ e.idx < 30 =>
          /\ e.frame.op = "fade_in"
          /\ e.frame.alpha = <<e.idx, 30>>
          /\ RatEq(e.frame.content, <<e.idx, 30>>)
          /\ RatLt(e.frame.alpha, One)
    /\ e.idx = 0 => RatEq(e.frame.content, Zero)
    /\ e.idx > total - 30 =>
          /\ e.frame.op = "fade_out"
          /\ e.frame.alpha = <<e.idx - (total - 30), 30>>
          /\ RatEq(e.frame.content, <<30 - (e.idx - (total - 30)), 30>>)
    /\ (30 <= e.idx /\ e.idx <= total - 30) =>
          /\ e.frame.op = "copy"
          /\ RatEq(e.frame.content, One)

\* C7: for the intro (30, 30, 150) and the outro (30, 30, 180) the blend of
\* frame i is: for i < 30 background blended toward the base image with
\* factor i/30; for i > total - 30 the base image blended toward background
\* with factor (i - (total - 30))/30; for 30 <= i <= total - 30 the base
\* image unblended; the factor is always within [0, 1].
C7_FadeEnvelope ==
    /\ \A k \in 1..Len(intro_files) :
          intro_files[k].idx \in 0..149 /\ FadeContract(intro_files[k], 150)
    /\ \A k \in 1..Len(outro_files) :
          outro_files[k].idx \in 0..179 /\ FadeContract(outro_files[k], 180)

\* both sequences are complete, boundary frames included
C7_Witness ==
    /\ Len(intro_files) = 150
    /\ Len(outro_files) = 180
    /\ intro_files[121].idx = 120 /\ intro_files[121].frame.op = "copy"
    /\ intro_files[122].idx = 121 /\ intro_files[122].frame.op = "fade_out"
    /\ outro_files[151].idx = 150 /\ outro_files[151].frame.op = "copy"
    /\ outro_files[180].frame.alpha = <<29, 30>>

\* the persisted frames of every sequence are a gap-free prefix, and a later
\* sequence has frames only when the earlier one is complete
GapFreePrefix ==
    /\ IndicesInOrder(intro_files)
    /\ IndicesInOrder(chat_files)
    /\ IndicesInOrder(outro_files)
    /\ Len(intro_files) <= 150 /\ Len(chat_files) <= 360 /\ Len(outro_files) <= 180
    /\ chat_files # <<>> => Len(intro_files) = 150
    /\ outro_files # <<>> => Len(chat_files) = 360

\* C8: when persisting a frame fails the run aborts at that frame: no later
\* frame is ever persisted afterwards, the persisted frames of each sequence
\* always form a gap-free prefix 0..k-1, and the run never reports success
\* after a failed write.
C8_AbortOnWriteFailure ==
    /\ [](GapFreePrefix)
    /\ [](failed => pc = "aborted")
    /\ [][failed =>
            /\ intro_files' = intro_files
            /\ chat_files' = chat_files
            /\ outro_files' = outro_files
            /\ pc' # "done"]_vars

\* a write failed in the middle of the chat sequence
C8_Witness ==
    /\ failed
    /\ pc = "aborted"
    /\ Len(intro_files) = 150
    /\ Len(chat_files) = 100
    /\ outro_files = <<>>

\* C9 as stated: chat frame index 269 is a phase-2 frame with progress about
\* 0.5 and shows all 4 preview items and the URL caption.
C9_Frame269AsStated ==
    \A k \in 1..Len(chat_files) :
        LET e == chat_files[k]
        IN e.idx = 269 =>
              /\ e.phase = 2
              /\ Len(e.frame.items) = 4
              /\ e.frame.url

\* C9 amended: chat frame index 269 is the last phase-1 frame (progress
\* 179/180) and shows neither preview items nor the URL caption; the first
\* frame that shows all 4 preview items and the URL caption is index 316, a
\* phase-2 frame with progress 46/90.
C9_Frame316 ==
    \A k \in 1..Len(chat_files) :
        LET e == chat_files[k]
        IN /\ e.idx = 269 =>
                 /\ e.phase = 1
                 /\ e.progress = <<179, 180>>
                 /\ ~e.frame.preview
                 /\ e.frame.items = <<>>
                 /\ ~e.frame.url
           /\ e.idx = 316 =>
                 /\ e.phase = 2
                 /\ e.progress = <<46, 90>>
                 /\ Len(e.frame.items) = 4
                 /\ e.frame.url
           /\ e.idx < 316 => ~(Len(e.frame.items) = 4 /\ e.frame.url)

\* frames 269 and 316 have been rendered
C9_Witness ==
    /\ \E e \in ChatEntries : e.idx = 269 /\ e.phase = 1
    /\ \E e \in ChatEntries : e.idx = 316 /\ e.frame.url

\* C10: in every phase-0 frame the user bubble is rendered with fade-in
\* alpha min(1, 4 * progress), and fully opaque in phases 1 and 2.
C10_UserBubbleFade ==
    \A k \in 1..Len(chat_files) :
        LET e == chat_files[k]
        IN /\ e.phase = 0 => RatEq(e.frame.user_opacity, alpha(e.progress, e.phase))
           /\ e.phase >= 1 => RatEq(e.frame.user_opacity, One)

====
